---- MODULE Spec2Model ----
(***************************************************************************)
(* Model of compute_cell_area (helper.py): the area of every cell of a     *)
(* time-dependent latitude/longitude grid.                                 *)
(*                                                                         *)
(* Arrays are nested sequences a[t][i][j], 1-based: t the Time axis, i the *)
(* south_north_subgrid axis, j the west_east_subgrid axis; Python's index  *)
(* k (0-based) is index k+1 here and Python's -1 is the last index.  The   *)
(* inputs carry no index coordinates (the WRF subgrid dimensions have      *)
(* none), so xarray combines arrays by position along equally named axes.  *)
(*                                                                         *)
(* Numbers are fixed point.  Degrees are integers.  Radians are counted in *)
(* units of 1/40680 (pi taken as 355/113, so one degree is exactly 710     *)
(* units and the mean of two converted degrees is exact).  Cosines are     *)
(* counted in millionths and are accurate to a few millionths up to 65     *)
(* degrees.  A missing value (NaN) is the empty tuple and a present value  *)
(* v the one-element tuple <<v>> wherever the code can hold a NaN.  The    *)
(* area is the exact integer product of its four factors (in units of      *)
(* km^2 / (40680^2 * 10^6)), kept as a sign and base-1000 limbs because it *)
(* exceeds the 32-bit integers of the model checker.                       *)
(***************************************************************************)
EXTENDS Integers, Sequences, FiniteSets, TLC

VARIABLES lat, lon, R, pc, lat_rad, lon_rad, dlat, dlon, dlat_rad, dlon_rad,
          lat_center, cos_lat, area, area_name, area_units, err

vars == <<lat, lon, R, pc, lat_rad, lon_rad, dlat, dlon, dlat_rad, dlon_rad,
          lat_center, cos_lat, area, area_name, area_units, err>>

\* Largest number of time steps, north-south rows and east-west columns.
MaxT == 2
MaxM == 3
MaxN == 3

\* R=6371.0, the default Earth radius in km.
DefaultR == 6371

\* One degree in radian units (pi/180 with pi = 355/113, in units of 1/40680).
RadPerDeg == 710
\* The value 1.0 of a cosine, in millionths.
CosOne == 1000000
\* Base of the limbs of an area value.
LimbBase == 1000

----------------------------------------------------------------------------
(* Numbers *)

Abs(n) == IF n < 0 THEN -n ELSE n

NaN == <<>>
Num(v) == <<v>>
IsNaN(x) == x = NaN

\* np.deg2rad on one element.
Deg2Rad(d) == d * RadPerDeg

\* np.cos on one element: n in radian units, the result in millionths
\* (Taylor series 1 - x^2/2 + x^4/24 - x^6/720; x^2 in millionths is
\* n*n * 10^6 / 40680^2, which is n*n / 1655 to four digits).
Cos(n) ==
    LET x2 == (n * n) \div 1655
        k  == x2 \div 100
        h  == x2 \div 1000
    IN  CosOne - (x2 \div 2) + ((k * k) \div 2400) - ((h * h * h) \div 720000)

\* np.cos on an element that may be missing.
CosNaN(x) == IF IsNaN(x) THEN NaN ELSE Num(Cos(x[1]))

RECURSIVE Limbs(_)
Limbs(k) == IF k = 0 THEN <<>> ELSE <<k % LimbBase>> \o Limbs(k \div LimbBase)

\* An integer as an exact wide value.
Big(n) == [neg |-> n < 0, mag |-> Limbs(Abs(n))]

RECURSIVE MulSmall(_, _, _)
MulSmall(mag, k, carry) ==
    IF mag = <<>> THEN Limbs(carry)
    ELSE LET v == mag[1] * k + carry
         IN  <<v % LimbBase>> \o MulSmall(Tail(mag), k, v \div LimbBase)

\* The exact product of a wide value and an integer.
BigTimes(x, n) ==
    IF n = 0 \/ x.mag = <<>> THEN [neg |-> FALSE, mag |-> <<>>]
    ELSE [neg |-> (x.neg # (n < 0)), mag |-> MulSmall(x.mag, Abs(n), 0)]

BigPositive(x) == ~x.neg /\ x.mag # <<>>

----------------------------------------------------------------------------
(* Array operations *)

\* Elementwise np.deg2rad.
Deg2RadArr(a) ==
    [t \in 1..Len(a) |-> [i \in 1..Len(a[t]) |->
        [j \in 1..Len(a[t][i]) |-> Deg2Rad(a[t][i][j])]]]

\* A difference taken the other way round: current minus next.
DiffSNBackward(a) ==
    [t \in 1..Len(a) |-> [i \in 1..(Len(a[t]) - 1) |->
        [j \in 1..Len(a[t][i]) |-> a[t][i][j] - a[t][i + 1][j]]]]

\* DataArray.diff(dim='south_north_subgrid'): next minus current.
DiffSN(a) ==
    [t \in 1..Len(a) |-> [i \in 1..(Len(a[t]) - 1) |->
        [j \in 1..Len(a[t][i]) |-> a[t][i + 1][j] - a[t][i][j]]]]

\* A difference that keeps the length of the axis, with 0 in the last slot.
DiffWEKeep(a) ==
    [t \in 1..Len(a) |-> [i \in 1..Len(a[t]) |-> [j \in 1..Len(a[t][i]) |->
        IF j < Len(a[t][i]) THEN a[t][i][j + 1] - a[t][i][j] ELSE 0]]]

\* DataArray.diff(dim='west_east_subgrid').
DiffWE(a) ==
    [t \in 1..Len(a) |-> [i \in 1..Len(a[t]) |->
        [j \in 1..(Len(a[t][i]) - 1) |-> a[t][i][j + 1] - a[t][i][j]]]]

\* Whether isel(south_north_subgrid=k) with a negative k is within the axis.
InSN(a, k) == \A t \in 1..Len(a) : Len(a[t]) + k + 1 >= 1

\* A selection that also drops the time axis at its first step.
IselSNFirstTime(a, k) == [t \in 1..Len(a) |-> a[1][Len(a[1]) + k + 1]]

\* isel(south_north_subgrid=k) for a negative k: a (Time, west_east) array.
IselSN(a, k) == [t \in 1..Len(a) |-> a[t][Len(a[t]) + k + 1]]

\* Whether isel(west_east_subgrid=k) with a negative k is within the axis.
InWE(a, k) ==
    \A t \in 1..Len(a) : \A i \in 1..Len(a[t]) : Len(a[t][i]) + k + 1 >= 1

\* isel(west_east_subgrid=k) for a negative k: a (Time, south_north) array.
IselWE(a, k) ==
    [t \in 1..Len(a) |-> [i \in 1..Len(a[t]) |-> a[t][i][Len(a[t][i]) + k + 1]]]

\* xr.concat([a, b], dim='south_north_subgrid') with b lacking that axis.
ConcatSN(a, b) == [t \in 1..Len(a) |-> Append(a[t], b[t])]

\* xr.concat([a, b], dim='west_east_subgrid') with b lacking that axis.
ConcatWE(a, b) ==
    [t \in 1..Len(a) |-> [i \in 1..Len(a[t]) |-> Append(a[t][i], b[t][i])]]

\* No padding at all.
PadSNNone(d) == d

\* The padded latitude differences (line 26).
PadSN(d) == ConcatSN(d, IselSN(d, -1))

\* Padding with the first difference instead of the last.
PadWEFirst(d) == ConcatWE(d, IselWE(d, -Len(d[1][1])))

\* The padded longitude differences (line 27).
PadWE(d) == ConcatWE(d, IselWE(d, -1))

\* A rolling sum in place of the rolling mean.
RollingSum2(a) ==
    [t \in 1..Len(a) |-> [i \in 1..Len(a[t]) |-> [j \in 1..Len(a[t][i]) |->
        IF i = 1 THEN NaN ELSE Num(a[t][i - 1][j] + a[t][i][j])]]]

\* rolling(south_north_subgrid=2).mean(): the mean of the previous and the
\* current element, missing at the first index (min_periods is the window).
RollingMean2(a) ==
    [t \in 1..Len(a) |-> [i \in 1..Len(a[t]) |-> [j \in 1..Len(a[t][i]) |->
        IF i = 1 THEN NaN ELSE Num((a[t][i - 1][j] + a[t][i][j]) \div 2)]]]

\* No shift: the mean stays at the later of its two source indices.
ShiftNone(a) == a

\* shift(south_north_subgrid=-1): every element moves one index down, the
\* last index becomes missing.
ShiftBack(a) ==
    [t \in 1..Len(a) |-> [i \in 1..Len(a[t]) |-> [j \in 1..Len(a[t][i]) |->
        IF i = Len(a[t]) THEN NaN ELSE a[t][i + 1][j]]]]

\* The center latitudes before the fill (line 34).
CenterLat(a) == ShiftBack(RollingMean2(a))

\* fillna(b) with b a (Time, west_east) array broadcast along south_north.
FillNa(a, b) ==
    [t \in 1..Len(a) |-> [i \in 1..Len(a[t]) |-> [j \in 1..Len(a[t][i]) |->
        IF IsNaN(a[t][i][j]) THEN b[t][j] ELSE a[t][i][j]]]]

\* A fill from the first index.
FillCenterFirst(c) == FillNa(c, IselSN(c, -Len(c[1])))

\* A fill from the last index, which is the missing one.
FillCenterLast(c) == FillNa(c, IselSN(c, -1))

\* The filled center latitudes (line 35).
FillCenter(c) == FillNa(c, IselSN(c, -2))

\* Elementwise np.cos.
CosArr(a) ==
    [t \in 1..Len(a) |-> [i \in 1..Len(a[t]) |->
        [j \in 1..Len(a[t][i]) |-> CosNaN(a[t][i][j])]]]

\* An area proportional to R instead of R ** 2.
AreaCellLinear(r, dla, dlo, c) ==
    IF IsNaN(c) THEN NaN
    ELSE Num(BigTimes(BigTimes(BigTimes(Big(r), dla), dlo), c[1]))

\* One element of (R ** 2) * dlat_rad * dlon_rad * cos_lat, left to right.
AreaCell(r, dla, dlo, c) ==
    IF IsNaN(c) THEN NaN
    ELSE Num(BigTimes(BigTimes(BigTimes(Big(r * r), dla), dlo), c[1]))

\* (R ** 2) * dlat_rad * dlon_rad * cos_lat (line 39).
AreaArr(r, dla, dlo, c) ==
    [t \in 1..Len(dla) |-> [i \in 1..Len(dla[t]) |->
        [j \in 1..Len(dla[t][i]) |->
            AreaCell(r, dla[t][i][j], dlo[t][i][j], c[t][i][j])]]]

\* The array a statement assigns to its variable: the value of a, computed
\* once before the next statement reads it.
Assigned(a) == IF a = a THEN a ELSE a

\* compute_cell_area as a function of its arguments, statement by statement:
\* the area field, or "IndexError" when a padded axis has no difference to
\* repeat.
compute_cell_area(la, lo, r) ==
    LET v_lat_rad == Assigned(Deg2RadArr(la))
        d_lat     == Assigned(DiffSN(la))
        d_lon     == Assigned(DiffWE(lo))
    IN  IF ~InSN(d_lat, -1) \/ ~InWE(d_lon, -1) THEN "IndexError"
        ELSE LET p_lat      == Assigned(PadSN(d_lat))
                 p_lon      == Assigned(PadWE(d_lon))
                 v_dlat_rad == Assigned(Deg2RadArr(p_lat))
                 v_dlon_rad == Assigned(Deg2RadArr(p_lon))
                 c_shifted  == Assigned(CenterLat(v_lat_rad))
                 c_filled   == Assigned(FillCenter(c_shifted))
                 v_cos_lat  == Assigned(CosArr(c_filled))
             IN  AreaArr(r, v_dlat_rad, v_dlon_rad, v_cos_lat)

----------------------------------------------------------------------------
(* Inputs *)

\* Spacings between neighbouring rows and neighbouring columns, in degrees.
LatSteps == {-1, 1, 2}
LonSteps == {-1, 1}

\* Radii: the default, zero and a negative one.
Radii == {DefaultR, 0, -2}

\* Grid lines: sequences of n degrees starting at 0 with spacings in S.
RECURSIVE Profiles(_, _)
Profiles(n, S) ==
    IF n = 1 THEN {<<0>>}
    ELSE {Append(p, p[n - 1] + d) : p \in Profiles(n - 1, S), d \in S}

\* A latitude field: rows at p; with s = 1 the spacing of the rows grows by
\* one degree per time step and per column (s = 0 is a regular grid).
LatGrid(T, M, N, p, s) ==
    [t \in 1..T |-> [i \in 1..M |-> [j \in 1..N |->
        p[i] + s * i * ((t - 1) + (j - 1))]]]

\* A longitude field: columns at q; with s = 1 the spacing of the columns
\* grows by one degree per time step and per row.
LonGrid(T, M, N, q, s) ==
    [t \in 1..T |-> [i \in 1..M |-> [j \in 1..N |->
        q[j] + s * j * ((t - 1) + (i - 1))]]]

Unset == <<>>

Init ==
    /\ \E T \in 1..MaxT, M \in 1..MaxM, N \in 1..MaxN :
         \E p \in Profiles(M, LatSteps), q \in Profiles(N, LonSteps), s \in 0..1 :
            /\ lat = LatGrid(T, M, N, p, s)
            /\ lon = LonGrid(T, M, N, q, s)
    /\ R \in Radii
    /\ pc = "deg2rad"
    /\ lat_rad = Unset /\ lon_rad = Unset
    /\ dlat = Unset /\ dlon = Unset
    /\ dlat_rad = Unset /\ dlon_rad = Unset
    /\ lat_center = Unset /\ cos_lat = Unset
    /\ area = Unset /\ area_name = "" /\ area_units = "" /\ err = ""

----------------------------------------------------------------------------
(* Steps of compute_cell_area *)

\* Lines 18-19.
ToRadians ==
    /\ pc = "deg2rad"
    /\ lat_rad' = Deg2RadArr(lat)
    /\ lon_rad' = Deg2RadArr(lon)
    /\ pc' = "diff"
    /\ UNCHANGED <<lat, lon, R, dlat, dlon, dlat_rad, dlon_rad, lat_center,
                   cos_lat, area, area_name, area_units, err>>

\* Lines 22-23.
Diff ==
    /\ pc = "diff"
    /\ dlat' = DiffSN(lat)
    /\ dlon' = DiffWE(lon)
    /\ pc' = "padlat"
    /\ UNCHANGED <<lat, lon, R, lat_rad, lon_rad, dlat_rad, dlon_rad,
                   lat_center, cos_lat, area, area_name, area_units, err>>

\* Line 26: isel(-1) raises IndexError on an empty axis.
PadLat ==
    /\ pc = "padlat"
    /\ IF InSN(dlat, -1)
       THEN /\ dlat' = PadSN(dlat)
            /\ pc' = "padlon"
            /\ err' = err
       ELSE /\ dlat' = dlat
            /\ pc' = "raised"
            /\ err' = "IndexError"
    /\ UNCHANGED <<lat, lon, R, lat_rad, lon_rad, dlon, dlat_rad, dlon_rad,
                   lat_center, cos_lat, area, area_name, area_units>>

\* Line 27.
PadLon ==
    /\ pc = "padlon"
    /\ IF InWE(dlon, -1)
       THEN /\ dlon' = PadWE(dlon)
            /\ pc' = "difftorad"
            /\ err' = err
       ELSE /\ dlon' = dlon
            /\ pc' = "raised"
            /\ err' = "IndexError"
    /\ UNCHANGED <<lat, lon, R, lat_rad, lon_rad, dlat, dlat_rad, dlon_rad,
                   lat_center, cos_lat, area, area_name, area_units>>

\* Lines 30-31.
DiffToRadians ==
    /\ pc = "difftorad"
    /\ dlat_rad' = Deg2RadArr(dlat)
    /\ dlon_rad' = Deg2RadArr(dlon)
    /\ pc' = "center"
    /\ UNCHANGED <<lat, lon, R, lat_rad, lon_rad, dlat, dlon, lat_center,
                   cos_lat, area, area_name, area_units, err>>

\* Line 34.
Center ==
    /\ pc = "center"
    /\ lat_center' = CenterLat(lat_rad)
    /\ pc' = "fill"
    /\ UNCHANGED <<lat, lon, R, lat_rad, lon_rad, dlat, dlon, dlat_rad,
                   dlon_rad, cos_lat, area, area_name, area_units, err>>

\* Line 35.
Fill ==
    /\ pc = "fill"
    /\ lat_center' = FillCenter(lat_center)
    /\ pc' = "cos"
    /\ UNCHANGED <<lat, lon, R, lat_rad, lon_rad, dlat, dlon, dlat_rad,
                   dlon_rad, cos_lat, area, area_name, area_units, err>>

\* Line 36.
Cosine ==
    /\ pc = "cos"
    /\ cos_lat' = CosArr(lat_center)
    /\ pc' = "area"
    /\ UNCHANGED <<lat, lon, R, lat_rad, lon_rad, dlat, dlon, dlat_rad,
                   dlon_rad, lat_center, area, area_name, area_units, err>>

\* Line 39.
Area ==
    /\ pc = "area"
    /\ area' = AreaArr(R, dlat_rad, dlon_rad, cos_lat)
    /\ pc' = "rename"
    /\ UNCHANGED <<lat, lon, R, lat_rad, lon_rad, dlat, dlon, dlat_rad,
                   dlon_rad, lat_center, cos_lat, area_name, area_units, err>>

\* Lines 42-45.
Return ==
    /\ pc = "rename"
    /\ area_name' = "cell_area"
    /\ area_units' = "km^2"
    /\ pc' = "returned"
    /\ UNCHANGED <<lat, lon, R, lat_rad, lon_rad, dlat, dlon, dlat_rad,
                   dlon_rad, lat_center, cos_lat, area, err>>

Next ==
    \/ ToRadians
    \/ Diff
    \/ PadLat
    \/ PadLon
    \/ DiffToRadians
    \/ Center
    \/ Fill
    \/ Cosine
    \/ Area
    \/ Return

Spec == Init /\ [][Next]_vars

----------------------------------------------------------------------------
(* Shapes *)

SizeT(a) == Len(a)
SizeM(a) == Len(a[1])
SizeN(a) == Len(a[1][1])

\* a has shape (T, M, N).
HasShape(a, T, M, N) ==
    /\ Len(a) = T
    /\ \A t \in 1..T : /\ Len(a[t]) = M
                       /\ \A i \in 1..M : Len(a[t][i]) = N

Returned == pc = "returned"
Raised == pc = "raised"

\* The step functions compose to the function of the arguments.
StepsAgree == Returned => area = compute_cell_area(lat, lon, R)

----------------------------------------------------------------------------
(* Properties *)

Ts == 1..SizeT(lat)
Is == 1..SizeM(lat)
Js == 1..SizeN(lat)

ValidShape == SizeM(lat) >= 2 /\ SizeN(lat) >= 2

AfterPadLat ==
    {"padlon", "difftorad", "center", "fill", "cos", "area", "rename", "returned"}
AfterPadLon == AfterPadLat \ {"padlon"}
AfterFill == {"cos", "area", "rename", "returned"}

\* R^2 * rad(dla) * rad(dlo) * cos(c), dla and dlo in degrees and c in
\* radian units.
AreaFormula(r, dla, dlo, c) ==
    BigTimes(BigTimes(BigTimes(Big(r * r), Deg2Rad(dla)), Deg2Rad(dlo)), Cos(c))

\* The radian value of the mean of two latitudes given in degrees.
RadOfMean(x, y) == Deg2Rad(x + y) \div 2

\* Latitude depends on the row only, longitude on the column only.
Regular ==
    \A t \in Ts, i \in Is, j \in Js :
        lat[t][i][j] = lat[1][i][1] /\ lon[t][i][j] = lon[1][1][j]

\* Latitudes strictly increase northwards, longitudes strictly increase
\* eastwards, every latitude lies strictly between -90 and 90 degrees.
IncreasingPatch ==
    /\ \A t \in Ts, i \in Is, j \in Js : lat[t][i][j] > -90 /\ lat[t][i][j] < 90
    /\ \A t \in Ts, i \in Is, j \in Js : i < SizeM(lat) => lat[t][i][j] < lat[t][i + 1][j]
    /\ \A t \in Ts, i \in Is, j \in Js : j < SizeN(lat) => lon[t][i][j] < lon[t][i][j + 1]

\* C1: for inputs of shape (T, M, N) with M >= 2 and N >= 2 the function does
\* not raise, and the field it returns has shape (T, M, N) with a value (not
\* a missing one) at every index, the last row and the last column included.
C1_ShapePreserved ==
    /\ Raised => ~ValidShape
    /\ Returned =>
         /\ HasShape(area, SizeT(lat), SizeM(lat), SizeN(lat))
         /\ \A t \in Ts, i \in Is, j \in Js : ~IsNaN(area[t][i][j])

C1_Witness ==
    Returned /\ SizeT(lat) = 2 /\ SizeM(lat) = 3 /\ SizeN(lat) = 2

\* C2: at every non-edge position the latitude delta is next row minus this
\* row, the longitude delta next column minus this column, the center
\* latitude the mean of this row and the next, and the area is
\* R^2 * rad(latitude delta) * rad(longitude delta) * cos(rad(center)).
C2_InteriorFactors ==
    Returned =>
      \A t \in Ts, i \in Is, j \in Js :
        (i < SizeM(lat) /\ j < SizeN(lat)) =>
          /\ dlat[t][i][j] = lat[t][i + 1][j] - lat[t][i][j]
          /\ dlon[t][i][j] = lon[t][i][j + 1] - lon[t][i][j]
          /\ lat_center[t][i][j] = Num(RadOfMean(lat[t][i][j], lat[t][i + 1][j]))
          /\ area[t][i][j] =
               Num(AreaFormula(R, lat[t][i + 1][j] - lat[t][i][j],
                               lon[t][i][j + 1] - lon[t][i][j],
                               RadOfMean(lat[t][i][j], lat[t][i + 1][j])))

C2_Witness ==
    /\ Returned /\ R = DefaultR
    /\ SizeT(lat) = 2 /\ SizeM(lat) = 3 /\ SizeN(lat) = 3
    /\ lat[2][1][2] # lat[1][1][1]
    /\ lat[1][3][1] - lat[1][2][1] # lat[1][2][1] - lat[1][1][1]

\* The 1x3x3 grid with rows at 0, 1, 2 degrees and columns at 0, 1, 2 degrees.
ScenarioLat == << << <<0, 0, 0>>, <<1, 1, 1>>, <<2, 2, 2>> >> >>
ScenarioLon == << << <<0, 1, 2>>, <<0, 1, 2>>, <<0, 1, 2>> >> >>
Scenario == lat = ScenarioLat /\ lon = ScenarioLon /\ R = DefaultR

\* C3 as stated: on the scenario grid the area of the cell at north-south
\* index 1, east-west index 1 (0-based) is
\* 6371^2 * rad(1) * rad(1) * cos(rad(1)).
C3_AsStated ==
    (Returned /\ Scenario) =>
        area[1][2][2] = Num(AreaFormula(DefaultR, 1, 1, Deg2Rad(1)))

\* C3 amended: on the scenario grid the area of that cell is
\* 6371^2 * rad(1) * rad(1) * cos(rad(1.5)): the center latitude is the mean
\* of rows 1 and 2, which is 1.5 degrees.
C3_ScenarioInterior ==
    (Returned /\ Scenario) =>
        area[1][2][2] = Num(AreaFormula(DefaultR, 1, 1, Deg2Rad(3) \div 2))

C3_Witness == Returned /\ Scenario /\ ~IsNaN(area[1][2][2])

\* C4: on a regular grid the last row of the area field equals the row before
\* it and the last column equals the column before it.
C4_EdgeDuplication ==
    (Returned /\ Regular) =>
        /\ \A t \in Ts, j \in Js :
             area[t][SizeM(lat)][j] = area[t][SizeM(lat) - 1][j]
        /\ \A t \in Ts, i \in Is :
             area[t][i][SizeN(lat)] = area[t][i][SizeN(lat) - 1]

C4_Witness ==
    /\ Returned /\ Regular /\ R = DefaultR
    /\ SizeM(lat) = 3 /\ SizeN(lat) = 3
    /\ area[1][1][1] # area[1][2][1]
    /\ BigPositive(area[1][3][3][1])

\* Every value of an area field times 4.
Times4(a) ==
    [t \in 1..Len(a) |-> [i \in 1..Len(a[t]) |-> [j \in 1..Len(a[t][i]) |->
        IF IsNaN(a[t][i][j]) THEN NaN ELSE Num(BigTimes(a[t][i][j][1], 4))]]]

\* C5: the function called with the radius doubled returns 4 times the area
\* it returns for the radius itself, at every index.
C5_RadiusScaling ==
    Returned => compute_cell_area(lat, lon, 2 * R) = Times4(area)

C5_Witness ==
    /\ Returned /\ R = DefaultR /\ SizeM(lat) = 3 /\ SizeN(lat) = 3
    /\ BigPositive(area[1][3][3][1])

\* C6: with fewer than 2 rows or fewer than 2 columns the function never gets
\* past the padding of the short axis, raises there, and neither builds nor
\* returns an area field.
C6_ShortAxisRaises ==
    /\ SizeM(lat) < 2 => pc \in {"deg2rad", "diff", "padlat", "raised"}
    /\ SizeN(lat) < 2 => pc \in {"deg2rad", "diff", "padlat", "padlon", "raised"}
    /\ ~ValidShape => area = Unset /\ area_name = "" /\ area_units = ""
    /\ Raised => err = "IndexError"

C6_Witness ==
    Raised /\ err = "IndexError" /\ SizeM(lat) = 3 /\ SizeN(lat) = 1

\* C7: for latitudes strictly between -90 and 90 that strictly increase
\* northwards, longitudes that strictly increase eastwards and a nonzero R,
\* every value of the area field is strictly positive.
C7_PositiveArea ==
    (Returned /\ IncreasingPatch /\ R # 0) =>
        \A t \in Ts, i \in Is, j \in Js :
            ~IsNaN(area[t][i][j]) /\ BigPositive(area[t][i][j][1])

C7_Witness ==
    /\ Returned /\ IncreasingPatch /\ R = -2 /\ ~Regular
    /\ SizeT(lat) = 2 /\ SizeM(lat) = 3 /\ SizeN(lat) = 3

\* C8: once padded, the latitude deltas hold the forward difference at every
\* row but the last and repeat the difference of row M-2 in row M-1; the
\* longitude deltas do the same along the columns.
C8_PaddedDifferences ==
    /\ pc \in AfterPadLat =>
         \A t \in Ts, i \in Is, j \in Js :
            dlat[t][i][j] =
                IF i < SizeM(lat) THEN lat[t][i + 1][j] - lat[t][i][j]
                ELSE lat[t][i][j] - lat[t][i - 1][j]
    /\ pc \in AfterPadLon =>
         \A t \in Ts, i \in Is, j \in Js :
            dlon[t][i][j] =
                IF j < SizeN(lat) THEN lon[t][i][j + 1] - lon[t][i][j]
                ELSE lon[t][i][j] - lon[t][i][j - 1]

C8_Witness ==
    /\ pc = "difftorad" /\ SizeM(lat) = 3 /\ SizeN(lat) = 3
    /\ dlat[1][3][1] # dlat[1][1][1]
    /\ dlon[1][1][3] # dlon[1][1][1]

\* C9: after the mean and the shift the center latitudes miss exactly the
\* last row; the fill puts the center latitude of row M-2 of the same time
\* and column there and leaves every other row as it was.
C9_CenterFill ==
    /\ pc = "fill" =>
         \A t \in Ts, i \in Is, j \in Js :
            lat_center[t][i][j] =
                IF i < SizeM(lat)
                THEN Num(RadOfMean(lat[t][i][j], lat[t][i + 1][j]))
                ELSE NaN
    /\ pc \in AfterFill =>
         \A t \in Ts, i \in Is, j \in Js :
            lat_center[t][i][j] =
                IF i < SizeM(lat)
                THEN Num(RadOfMean(lat[t][i][j], lat[t][i + 1][j]))
                ELSE Num(RadOfMean(lat[t][i - 1][j], lat[t][i][j]))

C9_Witness ==
    /\ pc = "cos" /\ SizeT(lat) = 2 /\ SizeM(lat) = 2 /\ SizeN(lat) = 2
    /\ lat_center[1][2][1] # lat_center[1][2][2]
    /\ lat_center[1][2][1] # lat_center[2][2][1]

\* C10: the area at a time step is the area the function computes from that
\* time step alone, so two inputs that agree at a time step get the same area
\* there whatever they hold at the other time steps.
C10_TimeIndependent ==
    Returned =>
        \A t \in Ts :
            area[t] = compute_cell_area(<<lat[t]>>, <<lon[t]>>, R)[1]

C10_Witness ==
    /\ Returned /\ R = DefaultR
    /\ SizeT(lat) = 2 /\ SizeM(lat) = 3 /\ SizeN(lat) = 3
    /\ lat[1] # lat[2] /\ lon[1] # lon[2]
    /\ area[1] # area[2]

====
